---------------------------- MODULE Spec2Model ----------------------------
(***************************************************************************)
(* One render pass of dashboard.py (Nay1207/portfolio-dashboard).          *)
(*                                                                         *)
(* The script is a straight line: price chart with indicators, company     *)
(* profile, news (tab 1), then the watchlist loop, the styled watchlist    *)
(* table, the one-month performance loop and its bar chart (tab 2).  The   *)
(* data provider (yfinance) is the environment: each fetch picks one of    *)
(* the responses of a bounded family at the moment the script calls it.    *)
(*                                                                         *)
(* Numbers: the code computes in IEEE-754 doubles.  The model keeps the    *)
(* special values (NaN, +inf, -inf) and computes every finite value as an  *)
(* exact fraction n/d, so rounding error in the last bits and the sign of  *)
(* a zero are not modelled.                                                *)
(***************************************************************************)
EXTENDS Integers, Sequences, FiniteSets, TLC

VARIABLES
    pc,             \* the block the script runs next
    units,          \* each unit's outcome: pending, rendered, notice, exception
    notices,        \* the st.warning / st.error / st.info messages shown
    hist_data,      \* tab 1: the history frame with its indicator columns
    info,           \* tab 1: the profile record get_company_info returned
    panel,          \* tab 1: the lines of the company profile
    news_out,       \* tab 1: the news expanders
    portfolio_data, \* tab 2: the watchlist rows
    day_fetch,      \* what get_stock_data(ticker, '1d') answered, per ticker
    table,          \* tab 2: the rendered watchlist table
    perf_data,      \* tab 2: the performance entries
    month_fetch,    \* what get_stock_data(ticker, '1mo') answered, per ticker
    perf_chart      \* tab 2: the performance bar chart

vars == <<pc, units, notices, hist_data, info, panel, news_out, portfolio_data,
          day_fetch, table, perf_data, month_fetch, perf_chart>>

(***************************************************************************)
(* Floating point values: [n, d] with d > 0 is the fraction n/d in lowest  *)
(* terms; d = 0 is NaN (n = 0), +inf (n = 1) or -inf (n = -1).             *)
(***************************************************************************)
Abs(k) == IF k < 0 THEN -k ELSE k

Sgn(k) == IF k < 0 THEN -1 ELSE IF k > 0 THEN 1 ELSE 0

RECURSIVE GCD(_, _)
GCD(a, b) == IF b = 0 THEN a ELSE GCD(b, a % b)

Norm(n, d) ==
    IF d = 0 THEN [n |-> Sgn(n), d |-> 0]
    ELSE LET g == GCD(Abs(n), d) IN [n |-> n \div g, d |-> d \div g]

Num(k) == [n |-> k, d |-> 1]

NaN == [n |-> 0, d |-> 0]

PosInf == [n |-> 1, d |-> 0]

NegInf == [n |-> -1, d |-> 0]

IsFinite(x) == x.d # 0

IsNaN(x) == x.d = 0 /\ x.n = 0

FNeg(x) == [n |-> -x.n, d |-> x.d]

FAdd(a, b) ==
    IF a.d = 0 /\ b.d = 0
    THEN (IF a.n = b.n THEN a ELSE NaN)
    ELSE Norm(a.n * b.d + b.n * a.d, a.d * b.d)

FSub(a, b) == FAdd(a, FNeg(b))

FMul(a, b) == Norm(a.n * b.n, a.d * b.d)

\* numpy float64 division: x/0 is +-inf, 0/0 is nan, no exception is raised
FDiv(a, b) ==
    LET s == IF b.n < 0 THEN -1 ELSE 1
    IN  Norm(a.n * b.d * s, a.d * Abs(b.n))

\* a < b and a >= b on floats: every comparison with NaN is false
FLess(a, b) ==
    /\ ~IsNaN(a) /\ ~IsNaN(b) /\ a # b
    /\ \/ a = NegInf
       \/ b = PosInf
       \/ IsFinite(a) /\ IsFinite(b) /\ a.n * b.d < b.n * a.d

FGeq(a, b) == ~IsNaN(a) /\ ~IsNaN(b) /\ ~FLess(a, b)

(***************************************************************************)
(* Python values of mixed type in one column: a string cell is             *)
(* [str |-> s], a float cell is a fraction record.                         *)
(***************************************************************************)
Str(s) == [str |-> s]

IsStr(c) == "str" \in DOMAIN c

IsFloat(c) == "n" \in DOMAIN c

NA == Str("N/A")

(***************************************************************************)
(* String formatting.                                                      *)
(***************************************************************************)
Pad2(k) == IF k < 10 THEN "0" \o ToString(k) ELSE ToString(k)

Pad3(k) == IF k < 10 THEN "00" \o ToString(k)
           ELSE IF k < 100 THEN "0" \o ToString(k) ELSE ToString(k)

\* format spec ',' on a non-negative int: groups of three digits
RECURSIVE Comma(_)
Comma(k) == IF k < 1000 THEN ToString(k)
            ELSE Comma(k \div 1000) \o "," \o Pad3(k % 1000)

\* format spec '.2f' on a float (ties are rounded up; the inputs have none)
Fixed2(x) ==
    IF IsNaN(x) THEN "nan"
    ELSE IF x.d = 0 THEN (IF x.n > 0 THEN "inf" ELSE "-inf")
    ELSE LET q == (Abs(x.n) * 200 + x.d) \div (2 * x.d)
         IN  (IF x.n < 0 /\ q > 0 THEN "-" ELSE "")
             \o ToString(q \div 100) \o "." \o Pad2(q % 100)

\* Timestamp.strftime('%Y-%m-%d')
Strftime(t) == ToString(t[1]) \o "-" \o Pad2(t[2]) \o "-" \o Pad2(t[3])

(***************************************************************************)
(* The watchlist (lines 14-20): insertion-ordered dict, name -> symbol.    *)
(***************************************************************************)
tickers ==
    << <<"Applied Digital", "APLD">>, <<"Symbotic", "SYM">>,
       <<"Tesla", "TSLA">>, <<"Google", "GOOGL">>,
       <<"Nebius Group N.V", "NBIS">> >>

NTickers == Len(tickers)

(***************************************************************************)
(* Responses of get_stock_data.  A bar is [date, close]; a response is     *)
(* [kind |-> "raise"] or [kind |-> "ok", bars |-> <<bar, ...>>] (an empty  *)
(* DataFrame is ok with no bars).                                          *)
(***************************************************************************)
\* the j-th trading day of the model's calendar, with close c
Bar(j, c) ==
    [date |-> <<2024, 1 + ((j - 1) \div 28), 1 + ((j - 1) % 28)>>,
     close |-> Num(c)]

Raise == [kind |-> "raise"]

Frame(bars) == [kind |-> "ok", bars |-> bars]

\* data = get_stock_data(...)['Close']
Close(bars) == [j \in 1..Len(bars) |-> bars[j].close]

\* the last k bars of a history (the whole history when it is shorter)
LastBars(h, k) ==
    IF k >= Len(h) THEN h ELSE SubSeq(h, Len(h) - k + 1, Len(h))

Bars(cs) == [j \in 1..Len(cs) |-> Bar(j, cs[j])]

(***************************************************************************)
(* Tab 2, the watchlist loop (lines 190-221).                              *)
(***************************************************************************)
\* day_change without the factor 100: a fraction, not a percentage
day_change_fraction(data) ==
    LET current_price == data[Len(data)]
        prev_close == IF Len(data) > 1 THEN data[Len(data) - 1]
                      ELSE current_price
    IN  FDiv(FSub(current_price, prev_close), prev_close)

\* lines 195-197: the day-over-day change of a non-empty close series
day_change(data) ==
    LET current_price == data[Len(data)]
        prev_close == IF Len(data) > 1 THEN data[Len(data) - 1]
                      ELSE current_price
    IN  FMul(FDiv(FSub(current_price, prev_close), prev_close), Num(100))

\* na_row with zeros in place of the sentinel
na_row_zero(name, ticker) ==
    [Name |-> name, Ticker |-> ticker, Price |-> Num(0), Change |-> Num(0),
     LastUpdated |-> NA]

\* lines 207-213 and 215-221: the row of a ticker without data
na_row(name, ticker) ==
    [Name |-> name, Ticker |-> ticker, Price |-> NA, Change |-> NA,
     LastUpdated |-> NA]

\* portfolio_append whose except branch is "pass", as in the performance loop
portfolio_append_pass(rows, name, ticker, resp) ==
    IF resp.kind = "raise"
    THEN rows
    ELSE LET data == Close(resp.bars)
         IN  IF Len(data) # 0
             THEN Append(rows,
                    [Name |-> name, Ticker |-> ticker,
                     Price |-> data[Len(data)],
                     Change |-> day_change(data),
                     LastUpdated |->
                         Str(Strftime(resp.bars[Len(resp.bars)].date))])
             ELSE Append(rows, na_row(name, ticker))

\* lines 192-221: one iteration of the loop, portfolio_data afterwards
portfolio_append(rows, name, ticker, resp) ==
    IF resp.kind = "raise"
    THEN Append(rows, na_row(name, ticker))
    ELSE LET data == Close(resp.bars)
         IN  IF Len(data) # 0
             THEN Append(rows,
                    [Name |-> name, Ticker |-> ticker,
                     Price |-> data[Len(data)],
                     Change |-> day_change(data),
                     LastUpdated |->
                         Str(Strftime(resp.bars[Len(resp.bars)].date))])
             ELSE Append(rows, na_row(name, ticker))

(***************************************************************************)
(* The styled table (lines 223-237).  Styler.format applies the format     *)
(* string to every cell of the column when st.dataframe renders it;        *)
(* '{:.2f}'.format('N/A') raises ValueError, outside any try block.        *)
(***************************************************************************)
ValueError == [exc |-> "ValueError"]

IsExc(v) == "exc" \in DOMAIN v

\* lines 226-230
color_change(val) ==
    IF IsFloat(val)
    THEN (IF FLess(val, Num(0)) THEN "color: red" ELSE "color: green")
    ELSE ""

\* '{:.2f}'.format(val) followed by suffix
format_2f(val, suffix) ==
    IF IsFloat(val) THEN Str(Fixed2(val) \o suffix) ELSE ValueError

\* lines 232-237: the rendered rows, or the exception the rendering raises
styled_df(rows) ==
    LET cells == [j \in 1..Len(rows) |->
                    [Name |-> rows[j].Name, Ticker |-> rows[j].Ticker,
                     Price |-> format_2f(rows[j].Price, ""),
                     Change |-> format_2f(rows[j].Change, "%"),
                     ChangeStyle |-> color_change(rows[j].Change),
                     LastUpdated |-> rows[j].LastUpdated]]
    IN  IF \E j \in 1..Len(rows) : IsExc(cells[j].Price) \/ IsExc(cells[j].Change)
        THEN ValueError
        ELSE [rows |-> cells, height |-> (Len(rows) + 1) * 35 + 3]

(***************************************************************************)
(* The one-month performance loop and chart (lines 242-281).               *)
(***************************************************************************)
\* perf_append that tests only "not data.empty"
perf_append_single(rows, ticker, resp) ==
    IF resp.kind = "raise"
    THEN rows
    ELSE LET data == Close(resp.bars)
         IN  IF Len(data) # 0
             THEN Append(rows,
                    [Ticker |-> ticker,
                     Performance |->
                        FMul(FDiv(FSub(data[Len(data)], data[1]), data[1]),
                             Num(100))])
             ELSE rows

\* lines 246-255: one iteration of the loop, perf_data afterwards
perf_append(rows, ticker, resp) ==
    IF resp.kind = "raise"
    THEN rows
    ELSE LET data == Close(resp.bars)
         IN  IF Len(data) # 0 /\ Len(data) > 1
             THEN Append(rows,
                    [Ticker |-> ticker,
                     Performance |->
                        FMul(FDiv(FSub(data[Len(data)], data[1]), data[1]),
                             Num(100))])
             ELSE rows

\* Series.round(2).astype(str): the shortest decimal of the rounded float
Round2Str(x) ==
    IF IsNaN(x) THEN "nan"
    ELSE IF x.d = 0 THEN (IF x.n > 0 THEN "inf" ELSE "-inf")
    ELSE LET q == (Abs(x.n) * 200 + x.d) \div (2 * x.d)
             f == q % 100
         IN  (IF x.n < 0 /\ q > 0 THEN "-" ELSE "")
             \o ToString(q \div 100) \o "."
             \o (IF f % 10 = 0 THEN ToString(f \div 10) ELSE Pad2(f))

\* lines 257-279: the bar chart, or the notice when there is nothing to plot
perf_figure(rows) ==
    IF Len(rows) # 0
    THEN [bars |-> [j \in 1..Len(rows) |->
                      [x |-> rows[j].Ticker, y |-> rows[j].Performance,
                       marker_color |->
                          IF FGeq(rows[j].Performance, Num(0))
                          THEN "green" ELSE "red",
                       text |-> Round2Str(rows[j].Performance) \o "%"]]]
    ELSE [info |-> "Could not load performance data for all stocks."]

(***************************************************************************)
(* Tab 1, the indicators of the price chart (lines 66-132).                *)
(***************************************************************************)
SMA_SHORT == 20

SMA_LONG == 50

RSI_WINDOW == 14

RECURSIVE SumRange(_, _, _)
SumRange(s, lo, hi) ==
    IF lo > hi THEN Num(0) ELSE FAdd(SumRange(s, lo, hi - 1), s[hi])

\* rolling_mean with min_periods=1: the mean of the bars there are
rolling_mean_partial(s, w) ==
    [i \in 1..Len(s) |->
        IF i < w THEN FDiv(SumRange(s, 1, i), Num(i))
        ELSE FDiv(SumRange(s, i - w + 1, i), Num(w))]

\* Series.rolling(window=w).mean(): min_periods is w, so the first w-1
\* entries (i <= w-1, counting from 1) are NaN
rolling_mean(s, w) ==
    [i \in 1..Len(s) |->
        IF i < w THEN NaN ELSE FDiv(SumRange(s, i - w + 1, i), Num(w))]

\* Series.diff(): the first entry is NaN
diff(s) ==
    [i \in 1..Len(s) |-> IF i = 1 THEN NaN ELSE FSub(s[i], s[i - 1])]

\* line 76, delta.where(delta > 0, 0): an entry that is not > 0 (also NaN,
\* for which every comparison is false) is replaced by 0
where_gain(delta) ==
    [i \in 1..Len(delta) |->
        IF FLess(Num(0), delta[i]) THEN delta[i] ELSE Num(0)]

\* where_loss without the negation: losses stay negative
where_loss_signed(delta) ==
    [i \in 1..Len(delta) |->
        IF FLess(delta[i], Num(0)) THEN delta[i] ELSE Num(0)]

\* line 77, -delta.where(delta < 0, 0)
where_loss(delta) ==
    [i \in 1..Len(delta) |->
        FNeg(IF FLess(delta[i], Num(0)) THEN delta[i] ELSE Num(0))]

\* lines 78-79 at one index: 100 - (100 / (1 + gain / loss))
rsi_value(gain, loss) ==
    FSub(Num(100), FDiv(Num(100), FAdd(Num(1), FDiv(gain, loss))))

\* lines 75-79
rsi_series(close) ==
    LET delta == diff(close)
        gain == rolling_mean(where_gain(delta), RSI_WINDOW)
        loss == rolling_mean(where_loss(delta), RSI_WINDOW)
    IN  [i \in 1..Len(close) |-> rsi_value(gain[i], loss[i])]

Unset == [unset |-> TRUE]

\* lines 66-132: the unit's outcome and hist_data afterwards
chart_block(resp) ==
    IF resp.kind = "raise"
    THEN [unit |-> "notice",
          msg |-> "Failed to fetch historical data. Please try again later.",
          data |-> Unset]
    ELSE LET close == Close(resp.bars)
         IN  IF Len(close) # 0
             THEN [unit |-> "rendered", msg |-> "",
                   data |-> [Close |-> close,
                             SMA_20 |-> rolling_mean(close, SMA_SHORT),
                             SMA_50 |-> rolling_mean(close, SMA_LONG),
                             RSI |-> rsi_series(close)]]
             ELSE [unit |-> "notice",
                   msg |-> "No historical data available",
                   data |-> [Close |-> close]]

(***************************************************************************)
(* Tab 1, the company profile (lines 139-168).                             *)
(***************************************************************************)
PyInt(k) == [int |-> k]

None == [none |-> TRUE]

\* dict.get(key, default)
Get(record, key, default) ==
    IF key \in DOMAIN record THEN record[key] ELSE default

\* lines 151-157, in the dict's order
metric_keys ==
    << <<"P/E Ratio", "trailingPE">>, <<"P/B Ratio", "priceToBook">>,
       <<"Dividend Yield", "dividendYield">>,
       <<"52 Week High", "fiftyTwoWeekHigh">>,
       <<"52 Week Low", "fiftyTwoWeekLow">> >>

\* str(value) of an int or a str
PyStr(v) == IF "int" \in DOMAIN v THEN ToString(v.int) ELSE v.str

\* one st.write / st.info call: the bold label and the text after it
Line(label, text) == [label |-> label, text |-> text]

\* lines 159-161
RECURSIVE metric_lines(_, _)
metric_lines(record, j) ==
    IF j > Len(metric_keys) THEN <<>>
    ELSE LET value == Get(record, metric_keys[j][2], None)
             rest == metric_lines(record, j + 1)
         IN  IF value # None
             THEN << Line(metric_keys[j][1],
                          IF IsFloat(value) THEN Fixed2(value)
                          ELSE PyStr(value)) >> \o rest
             ELSE rest

\* market_cap_line with the 'N/A' default of the lines before it
market_cap_line_na(record) ==
    Line("Market Cap",
         IF "marketCap" \in DOMAIN record
         THEN "$" \o Comma(record["marketCap"].int) ELSE "N/A")

\* line 146: the default of a missing market cap is the number 0
market_cap_line(record) ==
    Line("Market Cap", "$" \o Comma(Get(record, "marketCap", PyInt(0)).int))

\* lines 139-168: the unit's outcome, info and the lines written
profile_block(resp) ==
    IF resp.kind = "raise"
    THEN [unit |-> "notice", info |-> Unset, lines |-> <<>>,
          msg |-> "Could not retrieve company information."]
    ELSE [unit |-> "rendered", info |-> resp.info, msg |-> "",
          lines |->
            << Line("Sector", Get(resp.info, "sector", NA).str),
               Line("Industry", Get(resp.info, "industry", NA).str),
               Line("Website", Get(resp.info, "website", NA).str),
               market_cap_line(resp.info),
               Line("---", ""), Line("Key Metrics", "") >>
            \o metric_lines(resp.info, 1)
            \o << Line("---", ""),
                  Line("Business Summary",
                       Get(resp.info, "longBusinessSummary",
                           Str("No summary available.")).str) >>]

(***************************************************************************)
(* Tab 1, the news (lines 172-184).                                        *)
(***************************************************************************)
\* pd.to_datetime(ts, unit='s'): the civil date and time (UTC) of an epoch
\* second count ts >= 0, as <<year, month, day, hour, minute>>
to_datetime(ts) ==
    LET z == (ts \div 86400) + 719468
        era == z \div 146097
        doe == z - era * 146097
        yoe == (doe - (doe \div 1460) + (doe \div 36524) - (doe \div 146096))
                   \div 365
        doy == doe - (365 * yoe + (yoe \div 4) - (yoe \div 100))
        mp == (5 * doy + 2) \div 153
        day == doy - ((153 * mp + 2) \div 5) + 1
        month == IF mp < 10 THEN mp + 3 ELSE mp - 9
        year == yoe + era * 400 + (IF month <= 2 THEN 1 ELSE 0)
        secs == ts % 86400
    IN  <<year, month, day, secs \div 3600, (secs % 3600) \div 60>>

\* Timestamp.strftime('%Y-%m-%d %H:%M')
StrftimeMinutes(t) ==
    Strftime(t) \o " " \o Pad2(t[4]) \o ":" \o Pad2(t[5])

Min(a, b) == IF a < b THEN a ELSE b

\* lines 176-180: the expander of one item; item['title'], item['publisher']
\* and item['link'] raise KeyError when the key is missing
news_item(item) ==
    IF {"title", "publisher", "link"} \subseteq DOMAIN item
    THEN [title |-> item.title,
          lines |->
             << Line("Publisher", item.publisher) >>
             \o (IF "providerPublishTime" \in DOMAIN item
                 THEN << Line("Published",
                              StrftimeMinutes(
                                  to_datetime(item.providerPublishTime))) >>
                 ELSE <<>>)
             \o << Line("Read more", item.link) >>]
    ELSE [exc |-> "KeyError"]

\* lines 172-184: the unit's outcome and the expanders shown
news_block(resp) ==
    IF resp.kind = "raise"
    THEN [unit |-> "notice", shown |-> <<>>,
          msg |-> "News feed temporarily unavailable."]
    ELSE LET news == resp.news
             top == SubSeq(news, 1, Min(5, Len(news)))
             bad == {j \in 1..Len(top) : IsExc(news_item(top[j]))}
             upto == IF bad = {} THEN Len(top)
                     ELSE (CHOOSE j \in bad : \A k \in bad : j <= k) - 1
             shown == [j \in 1..upto |-> news_item(top[j])]
         IN  IF Len(news) = 0
             THEN [unit |-> "notice", shown |-> <<>>,
                   msg |-> "No recent news found for this company."]
             ELSE IF bad = {}
             THEN [unit |-> "rendered", shown |-> shown, msg |-> ""]
             ELSE [unit |-> "notice", shown |-> shown,
                   msg |-> "News feed temporarily unavailable."]

(***************************************************************************)
(* The provider's responses.  A specification fixes, per fetch, the        *)
(* family the response is drawn from.                                      *)
(***************************************************************************)
MaxDayBars == 2

MaxMonthBars == 3

MaxBars == 22

MaxLongBars == 51

\* the histories the '1d' fetch cuts its last bars from
DayHistories ==
    { <<90, 100, 110>>, <<110, 100, 0>>, <<100, 0, 5>> }

DayResponses ==
    {Raise, Frame(<<>>)}
    \cup {Frame(LastBars(Bars(h), k)) : h \in DayHistories, k \in 1..MaxDayBars}

\* the histories the '1mo' fetch cuts its last bars from
MonthHistories == { <<40, 50, 55, 60>>, <<5, 0, 10, 20>> }

MonthResponses ==
    {Raise, Frame(<<>>)}
    \cup {Frame(LastBars(Bars(h), k)) :
             h \in MonthHistories, k \in 1..MaxMonthBars}

\* a price path of L bars from 200: steps of d1 up to bar k1, then steps of
\* d2 up to bar k2, then steps of d3
Walk(L, k1, k2, d1, d2, d3) ==
    [j \in 1..L |->
        200 + d1 * Min(j - 1, k1)
            + d2 * (IF j - 1 > k1 THEN Min(j - 1, k2) - k1 ELSE 0)
            + d3 * (IF j - 1 > k2 THEN j - 1 - k2 ELSE 0)]

Steps == {-2, 0, 1}

\* every two-legged path of at most MaxBars bars, and the three-legged
\* paths of 50 to MaxLongBars bars that turn after 16 and after 33 steps
HistResponses ==
    {Raise, Frame(<<>>)}
    \cup {Frame(Bars(Walk(L, k, L, d1, d2, 0))) :
             L \in 1..MaxBars, k \in 0..MaxBars, d1 \in Steps, d2 \in Steps}
    \cup {Frame(Bars(Walk(L, 16, 33, d1, d2, d3))) :
             L \in 50..MaxLongBars,
             d1 \in Steps, d2 \in Steps, d3 \in Steps}

FullInfo ==
    [sector |-> Str("Technology"), industry |-> Str("Software"),
     website |-> Str("https://example.com"),
     marketCap |-> PyInt(1234567890),
     trailingPE |-> [n |-> 57, d |-> 2], priceToBook |-> [n |-> 13, d |-> 4],
     dividendYield |-> [n |-> 1, d |-> 2],
     fiftyTwoWeekHigh |-> [n |-> 1501, d |-> 10],
     fiftyTwoWeekLow |-> PyInt(95),
     longBusinessSummary |-> Str("Makes things.")]

InfoFrame(keys) == [kind |-> "ok", info |-> [k \in keys |-> FullInfo[k]]]

\* every profile that lacks some subset of the ten fields
InfoResponses ==
    {Raise} \cup {InfoFrame(keys) : keys \in SUBSET DOMAIN FullInfo}

Article(j) ==
    [title |-> "Story " \o ToString(j), publisher |-> "Wire",
     providerPublishTime |-> 1700000000 + 86400 * j,
     link |-> "https://example.com/" \o ToString(j)]

Without(item, key) == [k \in DOMAIN item \ {key} |-> item[k]]

NewsFrame(items) == [kind |-> "ok", news |-> items]

NewsResponses ==
    { Raise, NewsFrame(<<>>), NewsFrame(<<Article(1)>>),
      NewsFrame(<<Without(Article(1), "providerPublishTime")>>),
      NewsFrame(<<Article(1), Without(Article(2), "publisher")>>),
      NewsFrame([j \in 1..6 |-> Article(j)]) }

\* the small families of the whole pass: a failure, no data, data
HistKinds == {Raise, Frame(<<>>), Frame(Bars(<<100, 110>>))}

InfoKinds == {Raise, InfoFrame({}), InfoFrame(DOMAIN FullInfo)}

DayKinds == {Raise, Frame(<<>>), Frame(Bars(<<100, 110>>))}

MonthKinds ==
    {Raise, Frame(<<>>), Frame(Bars(<<50>>)), Frame(Bars(<<50, 55, 60>>))}

\* one successful response per fetch
HistOk == {Frame(Bars(<<100, 110>>))}

InfoOk == {InfoFrame(DOMAIN FullInfo)}

NewsOk == {NewsFrame(<<Article(1)>>)}

DayOk == {Frame(Bars(<<100, 110>>))}

(***************************************************************************)
(* The script.                                                             *)
(***************************************************************************)
Units == {"chart", "profile", "news", "table", "perf"}

Init ==
    /\ pc = "chart"
    /\ units = [u \in Units |-> "pending"]
    /\ notices = <<>>
    /\ hist_data = Unset
    /\ info = Unset
    /\ panel = Unset
    /\ news_out = Unset
    /\ portfolio_data = <<>>
    /\ day_fetch = <<>>
    /\ table = Unset
    /\ perf_data = <<>>
    /\ month_fetch = <<>>
    /\ perf_chart = Unset

Notice(r) == IF r.unit = "notice" THEN Append(notices, r.msg) ELSE notices

\* lines 64-132
PriceChart(responses) ==
    /\ pc = "chart"
    /\ \E resp \in responses :
          LET r == chart_block(resp)
          IN  /\ hist_data' = r.data
              /\ units' = [units EXCEPT !["chart"] = r.unit]
              /\ notices' = Notice(r)
    /\ pc' = "profile"
    /\ UNCHANGED <<info, panel, news_out, portfolio_data, day_fetch, table,
                   perf_data, month_fetch, perf_chart>>

\* lines 137-168
CompanyProfile(responses) ==
    /\ pc = "profile"
    /\ \E resp \in responses :
          LET r == profile_block(resp)
          IN  /\ info' = r.info
              /\ panel' = r.lines
              /\ units' = [units EXCEPT !["profile"] = r.unit]
              /\ notices' = Notice(r)
    /\ pc' = "news"
    /\ UNCHANGED <<hist_data, news_out, portfolio_data, day_fetch, table,
                   perf_data, month_fetch, perf_chart>>

\* lines 170-184
RecentNews(responses) ==
    /\ pc = "news"
    /\ \E resp \in responses :
          LET r == news_block(resp)
          IN  /\ news_out' = r.shown
              /\ units' = [units EXCEPT !["news"] = r.unit]
              /\ notices' = Notice(r)
    /\ pc' = "watchlist"
    /\ UNCHANGED <<hist_data, info, panel, portfolio_data, day_fetch, table,
                   perf_data, month_fetch, perf_chart>>

\* lines 191-221, one iteration: the ticker is the next of the watchlist
WatchlistRow(responses) ==
    /\ pc = "watchlist"
    /\ LET k == Len(day_fetch) + 1
       IN  /\ \E resp \in responses :
                 /\ day_fetch' = Append(day_fetch, resp)
                 /\ portfolio_data' =
                       portfolio_append(portfolio_data, tickers[k][1],
                                        tickers[k][2], resp)
           /\ pc' = IF k = NTickers THEN "table" ELSE "watchlist"
    /\ UNCHANGED <<units, notices, hist_data, info, panel, news_out, table,
                   perf_data, month_fetch, perf_chart>>

\* lines 223-237: an exception raised here is caught by nothing, so the
\* script run ends and the rest of tab 2 is not executed
WatchlistTable ==
    /\ pc = "table"
    /\ table' = styled_df(portfolio_data)
    /\ IF IsExc(table')
       THEN /\ units' = [units EXCEPT !["table"] = "exception"]
            /\ pc' = "done"
       ELSE /\ units' = [units EXCEPT !["table"] = "rendered"]
            /\ pc' = "perf"
    /\ UNCHANGED <<notices, hist_data, info, panel, news_out, portfolio_data,
                   day_fetch, perf_data, month_fetch, perf_chart>>

\* lines 245-255, one iteration
PerfRow(responses) ==
    /\ pc = "perf"
    /\ LET k == Len(month_fetch) + 1
       IN  /\ \E resp \in responses :
                 /\ month_fetch' = Append(month_fetch, resp)
                 /\ perf_data' = perf_append(perf_data, tickers[k][2], resp)
           /\ pc' = IF k = NTickers THEN "perfchart" ELSE "perf"
    /\ UNCHANGED <<units, notices, hist_data, info, panel, news_out,
                   portfolio_data, day_fetch, table, perf_chart>>

\* lines 257-279
PerfChart ==
    /\ pc = "perfchart"
    /\ perf_chart' = perf_figure(perf_data)
    /\ IF "bars" \in DOMAIN perf_chart'
       THEN /\ units' = [units EXCEPT !["perf"] = "rendered"]
            /\ notices' = notices
       ELSE /\ units' = [units EXCEPT !["perf"] = "notice"]
            /\ notices' = Append(notices, perf_chart'.info)
    /\ pc' = "done"
    /\ UNCHANGED <<hist_data, info, panel, news_out, portfolio_data,
                   day_fetch, table, perf_data, month_fetch>>

\* the whole pass, every fetch failing, empty or with data
Next ==
    \/ PriceChart(HistKinds)
    \/ CompanyProfile(InfoKinds)
    \/ RecentNews(NewsResponses)
    \/ WatchlistRow(DayKinds)
    \/ WatchlistTable
    \/ PerfRow(MonthKinds)
    \/ PerfChart

Spec == Init /\ [][Next]_vars

\* the price chart over every response of the history family
NextChart == PriceChart(HistResponses)

SpecChart == Init /\ [][NextChart]_vars

\* the company profile over every subset of absent fields
NextProfile ==
    \/ PriceChart(HistKinds)
    \/ CompanyProfile(InfoResponses)

SpecProfile == Init /\ [][NextProfile]_vars

\* the watchlist loop and table over every assignment of '1d' responses
NextWatch ==
    \/ PriceChart(HistOk)
    \/ CompanyProfile(InfoOk)
    \/ RecentNews(NewsOk)
    \/ WatchlistRow(DayResponses)
    \/ WatchlistTable

SpecWatch == Init /\ [][NextWatch]_vars

\* the performance loop and chart over every assignment of '1mo' responses
NextPerf ==
    \/ PriceChart(HistOk)
    \/ CompanyProfile(InfoOk)
    \/ RecentNews(NewsOk)
    \/ WatchlistRow(DayOk)
    \/ WatchlistTable
    \/ PerfRow(MonthResponses)
    \/ PerfChart

SpecPerf == Init /\ [][NextPerf]_vars

(***************************************************************************)
(* Properties.                                                             *)
(***************************************************************************)
\* the tickers fetched so far whose '1d' response has at least one bar
HasBars(resp) == resp.kind = "ok" /\ Len(resp.bars) # 0

Fetched == 1..Len(day_fetch)

LoopOver == pc \notin {"chart", "profile", "news", "watchlist"}

\* v is (later - earlier) / earlier * 100 exactly, for earlier # 0
IsPctChange(v, later, earlier) ==
    /\ IsFinite(v)
    /\ v.n * (later.d * earlier.d * earlier.n)
          = v.d * ((later.n * earlier.d - earlier.n * later.d) * 100 * earlier.d)

\* the value a float division by zero leaves: nan for 0/0, else +-inf
IsZeroDivide(v, numerator) ==
    v = (IF numerator.n = 0 THEN NaN
         ELSE IF numerator.n > 0 THEN PosInf ELSE NegInf)

LatestClose(resp) == resp.bars[Len(resp.bars)].close

PreviousClose(resp) ==
    IF Len(resp.bars) >= 2 THEN resp.bars[Len(resp.bars) - 1].close
    ELSE LatestClose(resp)

\* C1: whatever each ticker's '1d' fetch does (raise, empty, one bar, more
\* bars), the loop appends one snapshot per ticker processed, the i-th with
\* the name and symbol of the i-th watchlist entry, and ends with exactly
\* one snapshot per watchlist entry.
C1_OneSnapshotPerEntryInOrder ==
    /\ Len(portfolio_data) = Len(day_fetch)
    /\ \A j \in 1..Len(portfolio_data) :
          /\ portfolio_data[j].Name = tickers[j][1]
          /\ portfolio_data[j].Ticker = tickers[j][2]
    /\ LoopOver => Len(portfolio_data) = NTickers

C1_Witness ==
    /\ pc = "table"
    /\ Len(portfolio_data) = NTickers
    /\ \E a, b, c, d \in Fetched :
          /\ day_fetch[a].kind = "raise"
          /\ day_fetch[b].kind = "ok" /\ Len(day_fetch[b].bars) = 0
          /\ day_fetch[c].kind = "ok" /\ Len(day_fetch[c].bars) = 1
          /\ day_fetch[d].kind = "ok" /\ Len(day_fetch[d].bars) = 2

RowData(j) ==
    <<portfolio_data[j].Price, portfolio_data[j].Change,
      portfolio_data[j].LastUpdated>>

\* C2: a ticker whose fetch raises or is empty gets 'N/A' in Price, Change
\* and Last Updated; a ticker with data gets numbers; and two tickers with
\* the same fetched series have the same three fields, whatever their
\* positions and whatever happened to the tickers around them.
C2_FailureIsolated ==
    \A j \in 1..Len(portfolio_data) :
       /\ ~HasBars(day_fetch[j]) => RowData(j) = <<NA, NA, NA>>
       /\ HasBars(day_fetch[j]) =>
             /\ IsFloat(portfolio_data[j].Price)
             /\ IsFloat(portfolio_data[j].Change)
             /\ portfolio_data[j].LastUpdated # NA
       /\ \A k \in 1..Len(portfolio_data) :
             day_fetch[j] = day_fetch[k] => RowData(j) = RowData(k)

C2_Witness ==
    /\ pc = "table"
    /\ HasBars(day_fetch[1]) /\ day_fetch[2].kind = "raise"
    /\ day_fetch[3] = day_fetch[1] /\ day_fetch[4] = Frame(<<>>)
    /\ HasBars(day_fetch[5]) /\ day_fetch[5] # day_fetch[1]
    /\ RowData(2) = <<NA, NA, NA>> /\ RowData(3) = RowData(1)

C6_ZeroDivisionIsAnError ==
    /\ \A j \in 1..Len(portfolio_data) :
          HasBars(day_fetch[j]) /\ PreviousClose(day_fetch[j]) = Num(0)
             => RowData(j) = <<NA, NA, NA>>
    /\ \A j \in 1..Len(month_fetch) :
          month_fetch[j].kind = "ok" /\ Len(month_fetch[j].bars) >= 2
          /\ month_fetch[j].bars[1].close = Num(0)
             => \A e \in 1..Len(perf_data) :
                   perf_data[e].Ticker # tickers[j][2]

\* C3: nothing in a pass is fatal: when the script stops, each of the five
\* units has been rendered or replaced by a notice.
C3_NothingIsFatal ==
    pc = "done" => \A u \in Units : units[u] \in {"rendered", "notice"}

\* the tickers whose '1mo' response has at least two bars, in watchlist order
Sized(resp) == resp.kind = "ok" /\ Len(resp.bars) >= 2

RECURSIVE SizedUpTo(_)
SizedUpTo(k) ==
    IF k = 0 THEN <<>>
    ELSE IF Sized(month_fetch[k]) THEN Append(SizedUpTo(k - 1), k)
    ELSE SizedUpTo(k - 1)

\* C5: the performance list has an entry for a ticker exactly when its '1mo'
\* fetch returned at least two closes; the entries are in watchlist order;
\* an entry's value is (last - first) / first * 100 (+20 for [50, 55, 60]),
\* the float quotient when first is 0; a ticker whose fetch raises, is empty
\* or has one bar adds nothing.
C5_PerformanceEntries ==
    LET sized == SizedUpTo(Len(month_fetch))
    IN  /\ perf_append(<<>>, "X", Frame(Bars(<<50, 55, 60>>)))
              = <<[Ticker |-> "X", Performance |-> Num(20)]>>
        /\ Len(perf_data) = Len(sized)
        /\ \A e \in 1..Len(perf_data) :
              LET bars == month_fetch[sized[e]].bars
                  first == bars[1].close
                  last == bars[Len(bars)].close
              IN  /\ e <= Len(sized)
                  /\ perf_data[e].Ticker = tickers[sized[e]][2]
                  /\ DOMAIN perf_data[e] = {"Ticker", "Performance"}
                  /\ first # Num(0)
                        => IsPctChange(perf_data[e].Performance, last, first)
                  /\ first = Num(0)
                        => IsZeroDivide(perf_data[e].Performance, last)

C5_Witness ==
    /\ pc = "perfchart"
    /\ month_fetch[1].kind = "raise"
    /\ \A j \in 2..5 : month_fetch[j].kind = "ok"
    /\ Close(month_fetch[2].bars) = <<Num(50), Num(55), Num(60)>>
    /\ month_fetch[3] = Frame(<<>>)
    /\ Len(month_fetch[4].bars) = 1
    /\ Close(month_fetch[5].bars) = <<Num(10), Num(20)>>
    /\ perf_data = << [Ticker |-> "SYM", Performance |-> Num(20)],
                      [Ticker |-> "NBIS", Performance |-> Num(100)] >>

\* the price chart was drawn: hist_data carries the indicator columns
HasIndicators == "RSI" \in DOMAIN hist_data

Bars0 == Len(hist_data.Close)

RECURSIVE CloseSum(_, _)
CloseSum(lo, hi) ==
    IF lo > hi THEN 0 ELSE hist_data.Close[hi].n + CloseSum(lo, hi - 1)

\* column col is the w-bar simple moving average of the closes; position i
\* counts from 1, so the code's index is i - 1
IsSma(col, w) ==
    /\ DOMAIN col = DOMAIN hist_data.Close
    /\ \A i \in 1..Bars0 :
          IF i < w THEN IsNaN(col[i])
          ELSE /\ IsFinite(col[i])
               /\ col[i].n * w = col[i].d * CloseSum(i - w + 1, i)
    /\ Cardinality({i \in 1..Bars0 : ~IsNaN(col[i])})
          = (IF w <= Bars0 THEN Bars0 - w + 1 ELSE 0)

\* C7: each SMA column (windows 20 and 50) has the length and index of the
\* closes, is undefined (NaN, not 0) at the first w-1 positions and is the
\* mean of the last w closes at every later one, so it has L-w+1 defined
\* values when w <= L and none when w > L.
C7_SmaWindows ==
    HasIndicators =>
       /\ \A i \in 1..Bars0 : hist_data.Close[i].d = 1
       /\ IsSma(hist_data.SMA_20, SMA_SHORT)
       /\ IsSma(hist_data.SMA_50, SMA_LONG)

C7_Witness ==
    /\ HasIndicators
    /\ Bars0 > SMA_LONG
    /\ IsNaN(hist_data.SMA_50[SMA_LONG - 1])
    /\ IsFinite(hist_data.SMA_50[SMA_LONG])
    /\ hist_data.SMA_50[SMA_LONG] # hist_data.SMA_50[Bars0]
    /\ IsNaN(hist_data.SMA_20[SMA_SHORT - 1])
    /\ hist_data.SMA_20[SMA_SHORT] # hist_data.SMA_20[Bars0]
    /\ hist_data.SMA_20[Bars0] # hist_data.SMA_50[Bars0]

\* the rise and the fall of the close at position j over position j - 1
GainAt(j) ==
    IF j >= 2 /\ hist_data.Close[j].n > hist_data.Close[j - 1].n
    THEN hist_data.Close[j].n - hist_data.Close[j - 1].n ELSE 0

LossAt(j) ==
    IF j >= 2 /\ hist_data.Close[j].n < hist_data.Close[j - 1].n
    THEN hist_data.Close[j - 1].n - hist_data.Close[j].n ELSE 0

RECURSIVE WindowGain(_, _)
WindowGain(lo, hi) ==
    IF lo > hi THEN 0 ELSE GainAt(hi) + WindowGain(lo, hi - 1)

RECURSIVE WindowLoss(_, _)
WindowLoss(lo, hi) ==
    IF lo > hi THEN 0 ELSE LossAt(hi) + WindowLoss(lo, hi - 1)

InPercentRange(v) == IsFinite(v) /\ 0 <= v.n /\ v.n <= 100 * v.d

\* C8: every RSI value that is defined lies in [0, 100]; where the window
\* of 14 entries is full, the value is exactly 100 when the window has
\* gains and no loss, and it is undefined only when the window has neither
\* a gain nor a loss.
C8_RsiBounded ==
    HasIndicators =>
       \A i \in 1..Bars0 :
          LET v == hist_data.RSI[i]
              gains == WindowGain(i - RSI_WINDOW + 1, i)
              losses == WindowLoss(i - RSI_WINDOW + 1, i)
          IN  /\ ~IsNaN(v) => InPercentRange(v)
              /\ i >= RSI_WINDOW =>
                    /\ losses = 0 /\ gains > 0 => v = Num(100)
                    /\ IsNaN(v) <=> (gains = 0 /\ losses = 0)

C8_Witness ==
    /\ HasIndicators
    /\ \E i, j, k \in 1..Bars0 :
          /\ hist_data.RSI[i] = Num(100)
          /\ InPercentRange(hist_data.RSI[j])
          /\ hist_data.RSI[j] \notin {Num(0), Num(100)}
          /\ k >= RSI_WINDOW /\ IsNaN(hist_data.RSI[k])

\* C10: the RSI is undefined at the code's indices 0..13 (positions 1..14)
\* and, from index 14 on, is computed from the 14 differences ending there.
C10_RsiNeedsFourteenDifferences ==
    HasIndicators =>
       \A i \in 1..Bars0 :
          LET v == hist_data.RSI[i]
              gains == WindowGain(i - RSI_WINDOW + 1, i)
              losses == WindowLoss(i - RSI_WINDOW + 1, i)
          IN  IF i <= RSI_WINDOW THEN IsNaN(v)
              ELSE IF gains + losses = 0 THEN IsNaN(v)
              ELSE IsFinite(v) /\ v.n * (gains + losses) = v.d * 100 * gains

\* the profile was fetched: info is the record the provider returned
HasInfo == units["profile"] # "pending" /\ "unset" \notin DOMAIN info

\* the label under which the panel shows each field of the record
FieldLabel ==
    [sector |-> "Sector", industry |-> "Industry", website |-> "Website",
     marketCap |-> "Market Cap", trailingPE |-> "P/E Ratio",
     priceToBook |-> "P/B Ratio", dividendYield |-> "Dividend Yield",
     fiftyTwoWeekHigh |-> "52 Week High", fiftyTwoWeekLow |-> "52 Week Low",
     longBusinessSummary |-> "Business Summary"]

Absent == DOMAIN FieldLabel \ DOMAIN info

LinesOf(f) == {j \in 1..Len(panel) : panel[j].label = FieldLabel[f]}

Shows(f, text) == \E j \in LinesOf(f) : panel[j].text = text

\* C9 as stated: with any subset of the fields absent the panel is rendered
\* (not its error branch) and every absent field is shown as a placeholder.
C9_AbsentShownAsPlaceholder ==
    HasInfo =>
       /\ units["profile"] = "rendered"
       /\ \A f \in Absent :
             Shows(f, "N/A") \/ Shows(f, "No summary available.")

\* C9 (amended): with any subset of the fields absent the panel is rendered
\* (not its error branch); an absent sector, industry or website is shown
\* as 'N/A' and an absent summary as 'No summary available.', but an absent
\* market cap is shown as the number $0 and an absent metric (P/E, P/B,
\* dividend yield, 52-week high, 52-week low) gets no line at all.  A field
\* that is present has exactly one line.
C9_ProfileDefaults ==
    HasInfo =>
       /\ units["profile"] = "rendered"
       /\ \A f \in DOMAIN FieldLabel \ Absent : Cardinality(LinesOf(f)) = 1
       /\ \A f \in Absent :
             IF f \in {"sector", "industry", "website"}
             THEN Cardinality(LinesOf(f)) = 1 /\ Shows(f, "N/A")
             ELSE IF f = "longBusinessSummary"
             THEN Cardinality(LinesOf(f)) = 1
                  /\ Shows(f, "No summary available.")
             ELSE IF f = "marketCap"
             THEN Cardinality(LinesOf(f)) = 1 /\ Shows(f, "$0")
             ELSE LinesOf(f) = {}

C9_Witness ==
    /\ HasInfo
    /\ Absent = DOMAIN FieldLabel
    /\ units["profile"] = "rendered"
    /\ Len(panel) = 8
=============================================================================
